---- MODULE Spec2Model ----
(***************************************************************************)
(* Model of habit-tracker-cli: the Habit record (models/habit.rs), the     *)
(* HabitStore with its JSON load/save (storage/json_storage.rs) and the    *)
(* command handlers of run (cli/commands.rs).                              *)
(*                                                                         *)
(* Strings are sequences of one-character strings, so that trim,           *)
(* eq_ignore_ascii_case, Uuid parsing and number parsing are computed      *)
(* character by character.  A file is a sequence of tokens of the JSON     *)
(* document; a habit object is the unit of a partial write.                *)
(***************************************************************************)
EXTENDS Integers, Sequences, FiniteSets, TLC

(* ------------------------------ bounds --------------------------------- *)
\* hex digits of a Uuid literal (32 in the uuid crate)
UuidLen == 2
\* clock ticks per calendar day (DateTime<Utc> has nanosecond ticks)
TicksPerDay == 2
\* habits a store holds at most
MaxHabits == 3
\* invocations of the tool in one sequential run
MaxCmds == 3
\* invocations run on a backing file left by earlier runs
MaxSeededCmds == 1
\* inodes of the file system
NumInodes == 4

(* ------------------------------ strings -------------------------------- *)
LowerChars == <<"a","b","c","d","e","f","g","h","i","j","k","l","m",
                "n","o","p","q","r","s","t","u","v","w","x","y","z">>
UpperChars == <<"A","B","C","D","E","F","G","H","I","J","K","L","M",
                "N","O","P","Q","R","S","T","U","V","W","X","Y","Z">>
DigitChars == <<"0","1","2","3","4","5","6","7","8","9">>
WhiteChars == {" ", "\t"}

IndexOf(c, seq) == IF \E i \in 1..Len(seq) : seq[i] = c
                   THEN CHOOSE i \in 1..Len(seq) : seq[i] = c
                   ELSE 0

Range(seq) == {seq[i] : i \in 1..Len(seq)}

\* u8::to_ascii_lowercase
LowerOfUpper == [c \in Range(UpperChars) |-> LowerChars[IndexOf(c, UpperChars)]]
ToAsciiLower(c) == IF c \in DOMAIN LowerOfUpper THEN LowerOfUpper[c] ELSE c

\* str::eq_ignore_ascii_case
EqIgnoreAsciiCaseSame(a, b) == a = b
EqIgnoreAsciiCase(a, b) ==
    /\ Len(a) = Len(b)
    /\ \A i \in 1..Len(a) : ToAsciiLower(a[i]) = ToAsciiLower(b[i])

\* str::trim().is_empty()
TrimIsEmptyOnlyEmpty(s) == Len(s) = 0
TrimIsEmpty(s) == \A i \in 1..Len(s) : s[i] \in WhiteChars

\* value of a decimal digit string, most significant digit first
DigitValue == [c \in Range(DigitChars) |-> IndexOf(c, DigitChars) - 1]

RECURSIVE DecValue(_)
DecValue(s) == IF Len(s) = 0 THEN 0
               ELSE 10 * DecValue(SubSeq(s, 1, Len(s) - 1)) + DigitValue[s[Len(s)]]

IsDecimal(s) == Len(s) > 0 /\ \A i \in 1..Len(s) : s[i] \in DOMAIN DigitValue

\* decimal rendering of a natural number
RECURSIVE DecString(_)
DecString(n) == IF n < 10 THEN <<DigitChars[n + 1]>>
                ELSE DecString(n \div 10) \o <<DigitChars[(n % 10) + 1]>>

(* ------------------------------ options -------------------------------- *)
NoneStr == [some |-> FALSE, v |-> <<>>]
SomeStr(s) == [some |-> TRUE, v |-> s]
NoneNum == [some |-> FALSE, v |-> 0]
SomeNum(n) == [some |-> TRUE, v |-> n]
NoneBool == [some |-> FALSE, v |-> FALSE]
SomeBool(b) == [some |-> TRUE, v |-> b]

(* ------------------------------- Uuid ---------------------------------- *)
\* A Uuid is its numeric value; its literal is UuidLen hex digits.
HexLetters == SubSeq(LowerChars, 1, 6)
HexValue == [c \in Range(DigitChars) \cup Range(HexLetters) \cup Range(SubSeq(UpperChars, 1, 6)) |->
                IF c \in DOMAIN DigitValue THEN DigitValue[c]
                ELSE 9 + IndexOf(ToAsciiLower(c), HexLetters)]

HexChar(d) == IF d < 10 THEN DigitChars[d + 1] ELSE LowerChars[d - 9]

RECURSIVE HexNumber(_)
HexNumber(s) == IF Len(s) = 0 THEN 0
                ELSE 16 * HexNumber(SubSeq(s, 1, Len(s) - 1)) + HexValue[s[Len(s)]]

\* <Uuid as FromStr>::from_str: Ok(id) or Err
ParseUuid(s) ==
    IF Len(s) = UuidLen /\ \A i \in 1..Len(s) : s[i] \in DOMAIN HexValue
    THEN [ok |-> TRUE, id |-> HexNumber(s)]
    ELSE [ok |-> FALSE, id |-> 0]

RECURSIVE HexDigits(_, _)
HexDigits(n, width) == IF width = 0 THEN <<>>
                       ELSE HexDigits(n \div 16, width - 1) \o <<HexChar(n % 16)>>

\* Uuid's Display / Serialize: lower-case digits
UuidString(id) == HexDigits(id, UuidLen)

\* the same literal in upper case, which from_str accepts as well
UuidStringUpper(id) ==
    [i \in 1..UuidLen |->
        LET c == UuidString(id)[i]
        IN  IF c \in Range(LowerChars) THEN UpperChars[IndexOf(c, LowerChars)] ELSE c]

(* ---------------------------- timestamps ------------------------------- *)
\* A DateTime<Utc> is a tick count; date_naive is its calendar day.
DateNaiveExact(t) == t
DateNaive(t) == t \div TicksPerDay

\* the clock values of a run: two ticks of day 0 and the first tick of day 1
Times == {0, 1, TicksPerDay}
\* the clock readings of Habit::new: within a day, and at the start of the next
CreateTimes == {1, TicksPerDay}

\* RFC 3339 rendering <date> T <time of day> Z
Rfc3339Midnight(t) == DecString(t \div TicksPerDay) \o <<"T", "0", "Z">>
Rfc3339(t) == DecString(t \div TicksPerDay) \o <<"T">>
              \o DecString(t % TicksPerDay) \o <<"Z">>

ParseRfc3339(s) ==
    LET tpos == IndexOf("T", s)
        date == SubSeq(s, 1, tpos - 1)
        tod  == SubSeq(s, tpos + 1, Len(s) - 1)
    IN  IF /\ tpos > 1
           /\ Len(s) >= tpos + 2
           /\ s[Len(s)] = "Z"
           /\ IsDecimal(date)
           /\ IsDecimal(tod)
           /\ DecValue(tod) < TicksPerDay
        THEN [ok |-> TRUE, t |-> DecValue(date) * TicksPerDay + DecValue(tod)]
        ELSE [ok |-> FALSE, t |-> 0]

(* ------------------------------- Habit --------------------------------- *)
\* Habit::new; the caller supplies the Uuid::new_v4() and Utc::now() values
HabitNew(id, name, description, target_frequency, now) ==
    [id |-> id, name |-> name, description |-> description, created_at |-> now,
     completions |-> <<>>, target_frequency |-> target_frequency, is_active |-> TRUE]

\* slice::sort on timestamps: insertion into an already sorted prefix
RECURSIVE SortTimes(_)
SortTimes(seq) ==
    IF Len(seq) <= 1 THEN seq
    ELSE LET rest == SortTimes(SubSeq(seq, 1, Len(seq) - 1))
             x    == seq[Len(seq)]
             k    == Cardinality({i \in 1..Len(rest) : rest[i] <= x})
         IN  SubSeq(rest, 1, k) \o <<x>> \o SubSeq(rest, k + 1, Len(rest))

\* Habit::mark_complete: the returned bool and the habit afterwards
MarkCompleteNoSort(h, date) ==
    IF \E i \in 1..Len(h.completions) : DateNaive(h.completions[i]) = DateNaive(date)
    THEN [ok |-> FALSE, habit |-> h]
    ELSE [ok |-> TRUE, habit |-> [h EXCEPT !.completions = Append(@, date)]]
MarkCompleteTouch(h, date) ==
    IF \E i \in 1..Len(h.completions) : DateNaive(h.completions[i]) = DateNaive(date)
    THEN [ok |-> FALSE, habit |-> h]
    ELSE [ok |-> TRUE,
          habit |-> [h EXCEPT !.completions = SortTimes(Append(@, date)),
                              !.created_at = date]]
MarkComplete(h, date) ==
    IF \E i \in 1..Len(h.completions) : DateNaive(h.completions[i]) = DateNaive(date)
    THEN [ok |-> FALSE, habit |-> h]
    ELSE [ok |-> TRUE, habit |-> [h EXCEPT !.completions = SortTimes(Append(@, date))]]

(* ------------------------------- JSON ---------------------------------- *)
\* A JSON value: tag t, with the string in s, the number in n, the array of
\* strings in a.  "missing" stands for a field the object does not have.
JMissing == [t |-> "missing", s |-> <<>>, n |-> 0, a |-> <<>>]
JNull    == [t |-> "null", s |-> <<>>, n |-> 0, a |-> <<>>]
JStr(x)  == [t |-> "str", s |-> x, n |-> 0, a |-> <<>>]
JNum(x)  == [t |-> "num", s |-> <<>>, n |-> x, a |-> <<>>]
JBool(b) == [t |-> "bool", s |-> <<>>, n |-> IF b THEN 1 ELSE 0, a |-> <<>>]
JArr(x)  == [t |-> "arr", s |-> <<>>, n |-> 0, a |-> x]

\* #[derive(Serialize)] for Habit: every field is written, None as null
SerializeHabit(h) ==
    [id |-> JStr(UuidString(h.id)),
     name |-> JStr(h.name),
     description |-> IF h.description.some THEN JStr(h.description.v) ELSE JNull,
     created_at |-> JStr(Rfc3339(h.created_at)),
     completions |-> JArr([i \in 1..Len(h.completions) |-> Rfc3339(h.completions[i])]),
     target_frequency |-> IF h.target_frequency.some THEN JNum(h.target_frequency.v)
                          ELSE JNull,
     is_active |-> JBool(h.is_active)]

\* #[derive(Deserialize)] for Habit: an Option field may be null or missing,
\* every other field must be present with its type
HabitFieldsOk(o) ==
    /\ o.id.t = "str" /\ ParseUuid(o.id.s).ok
    /\ o.name.t = "str"
    /\ o.description.t \in {"str", "null", "missing"}
    /\ o.created_at.t = "str" /\ ParseRfc3339(o.created_at.s).ok
    /\ o.completions.t = "arr"
    /\ \A i \in 1..Len(o.completions.a) : ParseRfc3339(o.completions.a[i]).ok
    /\ o.target_frequency.t \in {"num", "null", "missing"}
    /\ o.is_active.t = "bool"

DeserializeHabit(o) ==
    [id |-> ParseUuid(o.id.s).id,
     name |-> o.name.s,
     description |-> IF o.description.t = "str" THEN SomeStr(o.description.s)
                     ELSE NoneStr,
     created_at |-> ParseRfc3339(o.created_at.s).t,
     completions |-> [i \in 1..Len(o.completions.a) |->
                         ParseRfc3339(o.completions.a[i]).t],
     target_frequency |-> IF o.target_frequency.t = "num"
                          THEN SomeNum(o.target_frequency.n) ELSE NoneNum,
     is_active |-> o.is_active.n = 1]

\* Tokens of the document {"habits": [ obj, ... ]}; "nul" is a zero byte of
\* a hole left by a write past the end of a file.
NoObject == [id |-> JMissing, name |-> JMissing, description |-> JMissing,
             created_at |-> JMissing, completions |-> JMissing,
             target_frequency |-> JMissing, is_active |-> JMissing]
TokOpen   == [k |-> "open", o |-> NoObject]
TokClose  == [k |-> "close", o |-> NoObject]
TokNul    == [k |-> "nul", o |-> NoObject]
TokObj(o) == [k |-> "obj", o |-> o]

\* serde_json::to_vec_pretty(&HabitStore)
ToVecPretty(habits) ==
    <<TokOpen>> \o [i \in 1..Len(habits) |-> TokObj(SerializeHabit(habits[i]))]
                \o <<TokClose>>

\* serde_json::from_reader::<HabitStore>: Ok(store) or Err(serde_json::Error)
FromReader(bytes) ==
    LET n == Len(bytes)
        wellFormed ==
            /\ n >= 2
            /\ bytes[1].k = "open"
            /\ bytes[n].k = "close"
            /\ \A i \in 2..(n - 1) : bytes[i].k = "obj" /\ HabitFieldsOk(bytes[i].o)
    IN  IF wellFormed
        THEN [ok |-> TRUE,
              habits |-> [i \in 1..(n - 2) |-> DeserializeHabit(bytes[i + 1].o)]]
        ELSE [ok |-> FALSE, habits |-> <<>>]

(* ----------------------------- HabitStore ------------------------------ *)
\* the predicate shared by find_by_ident_mut and the retain closure of Remove
MatchesIdOrName(h, ident) ==
    \/ ParseUuid(ident).ok /\ h.id = ParseUuid(ident).id
    \/ EqIgnoreAsciiCase(h.name, ident)
Matches(h, ident) ==
    IF ParseUuid(ident).ok THEN h.id = ParseUuid(ident).id
    ELSE EqIgnoreAsciiCase(h.name, ident)

\* HabitStore::find_by_ident_mut: index of the first match, 0 for None
FindLast(habits, ident) ==
    IF \E i \in 1..Len(habits) : Matches(habits[i], ident)
    THEN CHOOSE i \in 1..Len(habits) :
            /\ Matches(habits[i], ident)
            /\ \A j \in (i + 1)..Len(habits) : ~Matches(habits[j], ident)
    ELSE 0
FindByIdentMut(habits, ident) ==
    IF \E i \in 1..Len(habits) : Matches(habits[i], ident)
    THEN CHOOSE i \in 1..Len(habits) :
            /\ Matches(habits[i], ident)
            /\ \A j \in 1..(i - 1) : ~Matches(habits[j], ident)
    ELSE 0

\* Vec::retain(|h| !matches(h))
RECURSIVE Retain(_, _)
RetainFirstOnly(habits, ident) ==
    LET k == FindByIdentMut(habits, ident)
    IN  IF k = 0 THEN habits
        ELSE SubSeq(habits, 1, k - 1) \o SubSeq(habits, k + 1, Len(habits))
Retain(habits, ident) ==
    IF Len(habits) = 0 THEN <<>>
    ELSE IF Matches(habits[1], ident) THEN Retain(Tail(habits), ident)
         ELSE <<habits[1]>> \o Retain(Tail(habits), ident)

(* ---------------------------- file system ------------------------------ *)
\* A path is its parent directory and the dot-separated parts of its file name.
DefaultPath == [parent |-> "", name |-> <<"habits", "json">>]
CustomPath  == [parent |-> "data", name |-> <<"store", "db">>]
EnvValues   == {[some |-> FALSE, v |-> DefaultPath], [some |-> TRUE, v |-> CustomPath]}

\* storage_path(): HABIT_STORAGE if set, else habits.json
StoragePath(e) == IF e.some THEN e.v ELSE DefaultPath

\* Path::with_extension("json.tmp"): the last extension, if any, is replaced
WithExtensionSamePath(path) == path
WithExtension(path) ==
    [path EXCEPT !.name =
        (IF Len(@) > 1 THEN SubSeq(@, 1, Len(@) - 1) ELSE @) \o <<"json", "tmp">>]

\* let tmp = path.with_extension("json.tmp")
TmpPathInPlace(e) == StoragePath(e)
TmpPath(e) == WithExtension(StoragePath(e))

AllPaths == UNION {{StoragePath(e), TmpPath(e)} : e \in EnvValues}
Inodes == 1..NumInodes

\* dir: path -> inode (0: no such file); ino: inode -> content;
\* dirs: the directories that exist ("" is the working directory)
NewFs(dirs) == [dir |-> [p \in AllPaths |-> 0], ino |-> [i \in Inodes |-> <<>>],
                dirs |-> dirs]

Linked(f) == {f.dir[p] : p \in AllPaths} \ {0}

\* content of an inode nobody can reach any more is dropped
Reclaim(f, open) ==
    [f EXCEPT !.ino = [i \in Inodes |-> IF i \in Linked(f) \cup open THEN @[i] ELSE <<>>]]

\* Path::exists
Exists(f, path) == f.dir[path] # 0

\* what a reader of `path` finds: [some, v]
Content(f, path) == IF f.dir[path] = 0 THEN [some |-> FALSE, v |-> <<>>]
                    ELSE [some |-> TRUE, v |-> f.ino[f.dir[path]]]

\* fs::create_dir_all(parent)
CreateDirAll(f, path) == [f EXCEPT !.dirs = @ \cup {path.parent}]

\* File::create: O_CREAT | O_TRUNC. [ok, fs, fd]; `open` are the inodes held open
FileCreate(f, path, open) ==
    IF path.parent \notin f.dirs THEN [ok |-> FALSE, fs |-> f, fd |-> 0]
    ELSE IF f.dir[path] # 0
    THEN [ok |-> TRUE, fs |-> [f EXCEPT !.ino[f.dir[path]] = <<>>], fd |-> f.dir[path]]
    ELSE LET free == Inodes \ (Linked(f) \cup open)
         IN  IF free = {} THEN [ok |-> FALSE, fs |-> f, fd |-> 0]
             ELSE LET i == CHOOSE x \in free : \A y \in free : x <= y
                  IN  [ok |-> TRUE,
                       fs |-> [f EXCEPT !.dir[path] = i, !.ino[i] = <<>>],
                       fd |-> i]

\* write(fd) of `data` at offset `pos`; a gap before pos reads as zero bytes
WriteAt(f, fd, pos, data) ==
    LET old == f.ino[fd]
        n   == IF Len(old) > pos + Len(data) THEN Len(old) ELSE pos + Len(data)
    IN  [f EXCEPT !.ino[fd] =
            [i \in 1..n |-> IF i > pos /\ i <= pos + Len(data) THEN data[i - pos]
                            ELSE IF i <= Len(old) THEN old[i] ELSE TokNul]]

\* fs::rename(from, to): [ok, fs]
Rename(f, from, to, open) ==
    IF f.dir[from] = 0 THEN [ok |-> FALSE, fs |-> f]
    ELSE IF from = to THEN [ok |-> TRUE, fs |-> f]
    ELSE [ok |-> TRUE,
          fs |-> Reclaim([f EXCEPT !.dir[to] = f.dir[from], !.dir[from] = 0], open)]

(* --------------------------- errors, results --------------------------- *)
Ok                  == [kind |-> "Ok", arg |-> <<>>]
NotFound(s)         == [kind |-> "NotFound", arg |-> s]
InvalidName(s)      == [kind |-> "InvalidName", arg |-> s]
AlreadyCompleted(s) == [kind |-> "AlreadyCompleted", arg |-> s]
IoError             == [kind |-> "Io", arg |-> <<>>]
SerdeError          == [kind |-> "Serde", arg |-> <<>>]

FrequencyWord == <<"f","r","e","q","u","e","n","c","y">>
NullWord      == <<"n","u","l","l">>

(* ------------------------- HabitStore load/save ------------------------ *)
\* I/O faults the environment can inject into one invocation
LoadFaults == {"open", "read"}
SaveFaults == {"mkdir", "create", "write", "flush", "rename"}
Faults     == {"none"} \cup LoadFaults \cup SaveFaults

\* HabitStore::load as one step: [res, habits]
LoadStore(f, e, fault) ==
    LET path == StoragePath(e)
    IN  IF ~Exists(f, path) THEN [res |-> Ok, habits |-> <<>>]
        ELSE IF fault = "open" THEN [res |-> IoError, habits |-> <<>>]
        \* a failed read comes back from from_reader as a serde_json::Error
        ELSE IF fault = "read" THEN [res |-> SerdeError, habits |-> <<>>]
        ELSE LET parsed == FromReader(Content(f, path).v)
             IN  IF parsed.ok THEN [res |-> Ok, habits |-> parsed.habits]
                 ELSE [res |-> SerdeError, habits |-> <<>>]

\* HabitStore::save as one step, stopped by `fault` after `cut` tokens were
\* written when the fault is in write_all: [res, fs]
SaveStore(f, e, habits, fault, cut) ==
    LET path == StoragePath(e)
        tmp  == TmpPath(e)
        data == ToVecPretty(habits)
        f1   == CreateDirAll(f, path)
        cr   == FileCreate(f1, tmp, {})
        f2   == WriteAt(cr.fs, cr.fd, 0, data)
        rn   == Rename(f2, tmp, path, {})
        part == SubSeq(data, 1, IF cut < Len(data) THEN cut ELSE Len(data) - 1)
    IN  IF fault = "mkdir" THEN [res |-> IoError, fs |-> f]
        ELSE IF fault = "create" \/ ~cr.ok THEN [res |-> IoError, fs |-> f1]
        ELSE IF fault = "write"
             THEN [res |-> IoError, fs |-> WriteAt(cr.fs, cr.fd, 0, part)]
        ELSE IF fault = "flush" THEN [res |-> IoError, fs |-> f2]
        ELSE IF fault = "rename" \/ ~rn.ok THEN [res |-> IoError, fs |-> f2]
        ELSE [res |-> Ok, fs |-> rn.fs]

(* ------------------------------ commands ------------------------------- *)
\* The outcome of one invocation of run: the result, the file system it leaves,
\* the local variable `store` when run returns, whether store.save() was called.
Outcome(res, f, mem, saved) == [res |-> res, fs |-> f, mem |-> mem, saved |-> saved]

\* the tail shared by the mutating commands: store.save()?; Ok(())
ReportWithoutSave(f, e, habits, fault, cut) == Outcome(Ok, f, habits, FALSE)
SaveAndReport(f, e, habits, fault, cut) ==
    LET sv == SaveStore(f, e, habits, fault, cut)
    IN  Outcome(sv.res, sv.fs, habits, TRUE)

\* what a handler does to the loaded store before it saves: [res, habits]
Mutated(res, habits) == [res |-> res, habits |-> habits]

\* load, the handler's in-memory part `m`, save
LoadMutateSaveEager(f, e, ld, m, fault, cut) ==
    IF ld.res # Ok THEN Outcome(ld.res, f, <<>>, FALSE)
    ELSE LET out == SaveAndReport(f, e, m.habits, fault, cut)
         IN  IF m.res # Ok THEN Outcome(m.res, out.fs, m.habits, FALSE) ELSE out
LoadMutateSave(f, e, ld, m, fault, cut) ==
    IF ld.res # Ok THEN Outcome(ld.res, f, <<>>, FALSE)
    ELSE IF m.res # Ok THEN Outcome(m.res, f, m.habits, FALSE)
    ELSE SaveAndReport(f, e, m.habits, fault, cut)

\* Commands::Add after its name check
AddMutFront(habits, name, description, frequency, id, now) ==
    Mutated(Ok, <<HabitNew(id, name, description, frequency, now)>> \o habits)
AddMut(habits, name, description, frequency, id, now) ==
    Mutated(Ok, Append(habits, HabitNew(id, name, description, frequency, now)))

RunAdd(f, e, name, description, frequency, id, now, fault, cut) ==
    IF TrimIsEmpty(name) THEN Outcome(InvalidName(name), f, <<>>, FALSE)
    ELSE LET ld == LoadStore(f, e, fault)
         IN  LoadMutateSave(f, e, ld,
                 AddMut(ld.habits, name, description, frequency, id, now), fault, cut)

\* Commands::List: the habits printed
ListedAll(habits, active) == 1..Len(habits)
Listed(habits, active) ==
    {i \in 1..Len(habits) : ~active \/ habits[i].is_active}

RunList(f, e, active, fault) ==
    LET ld == LoadStore(f, e, fault)
    IN  Outcome(ld.res, f, ld.habits, FALSE)

\* Commands::Complete
CompleteMutReactivate(habits, identifier, now) ==
    LET k  == FindByIdentMut(habits, identifier)
        mc == MarkComplete(habits[k], now)
    IN  IF k = 0 THEN Mutated(NotFound(identifier), habits)
        ELSE IF ~mc.ok THEN Mutated(AlreadyCompleted(habits[k].name), habits)
        ELSE Mutated(Ok, [habits EXCEPT ![k] = [mc.habit EXCEPT !.is_active = TRUE]])
CompleteMutEnforcing(habits, identifier, now) ==
    LET k  == FindByIdentMut(habits, identifier)
        mc == MarkComplete(habits[k], now)
    IN  IF k = 0 THEN Mutated(NotFound(identifier), habits)
        ELSE IF \/ ~mc.ok
                \/ /\ habits[k].target_frequency.some
                   /\ Len(habits[k].completions) >= habits[k].target_frequency.v
             THEN Mutated(AlreadyCompleted(habits[k].name), habits)
        ELSE Mutated(Ok, [habits EXCEPT ![k] = mc.habit])
CompleteMut(habits, identifier, now) ==
    LET k  == FindByIdentMut(habits, identifier)
        mc == MarkComplete(habits[k], now)
    IN  IF k = 0 THEN Mutated(NotFound(identifier), habits)
        ELSE IF ~mc.ok THEN Mutated(AlreadyCompleted(habits[k].name), habits)
        ELSE Mutated(Ok, [habits EXCEPT ![k] = mc.habit])

RunComplete(f, e, identifier, now, fault, cut) ==
    LET ld == LoadStore(f, e, fault)
    IN  LoadMutateSave(f, e, ld, CompleteMut(ld.habits, identifier, now), fault, cut)

\* Commands::Remove
RemoveMut(habits, identifier) ==
    LET kept == Retain(habits, identifier)
    IN  IF Len(kept) = Len(habits) THEN Mutated(NotFound(identifier), kept)
        ELSE Mutated(Ok, kept)

RunRemove(f, e, identifier, fault, cut) ==
    LET ld == LoadStore(f, e, fault)
    IN  LoadMutateSave(f, e, ld, RemoveMut(ld.habits, identifier), fault, cut)

\* u32::from_str on the frequency option of Edit
ParseU32(s) == IF IsDecimal(s) THEN [ok |-> TRUE, n |-> DecValue(s)]
               ELSE [ok |-> FALSE, n |-> 0]

\* Commands::Edit; name, description and frequency are Option<String>,
\* active is Option<bool>.  The fields are assigned in the order of the code,
\* so the store in memory keeps the assignments made before an error.
EditMut(habits, identifier, name, description, frequency, active) ==
    LET k  == FindByIdentMut(habits, identifier)
        h0 == habits[k]
        h1 == IF name.some THEN [h0 EXCEPT !.name = name.v] ELSE h0
        h2 == IF ~description.some THEN h1
              ELSE IF EqIgnoreAsciiCase(description.v, NullWord)
                   THEN [h1 EXCEPT !.description = NoneStr]
                   ELSE [h1 EXCEPT !.description = SomeStr(description.v)]
        pf == ParseU32(frequency.v)
        h3 == IF ~frequency.some THEN h2
              ELSE IF EqIgnoreAsciiCase(frequency.v, NullWord)
                   THEN [h2 EXCEPT !.target_frequency = NoneNum]
                   ELSE [h2 EXCEPT !.target_frequency = SomeNum(pf.n)]
        h4 == IF active.some THEN [h3 EXCEPT !.is_active = active.v] ELSE h3
    IN  IF k = 0 THEN Mutated(NotFound(identifier), habits)
        ELSE IF name.some /\ TrimIsEmpty(name.v)
             THEN Mutated(InvalidName(name.v), habits)
        ELSE IF frequency.some /\ ~EqIgnoreAsciiCase(frequency.v, NullWord) /\ ~pf.ok
             THEN Mutated(InvalidName(FrequencyWord), [habits EXCEPT ![k] = h2])
        ELSE Mutated(Ok, [habits EXCEPT ![k] = h4])

RunEdit(f, e, identifier, name, description, frequency, active, fault, cut) ==
    LET ld == LoadStore(f, e, fault)
    IN  LoadMutateSave(f, e, ld,
            EditMut(ld.habits, identifier, name, description, frequency, active),
            fault, cut)

(* --------------------- sequential runs of the tool --------------------- *)
VARIABLES
    fs,          \* the file system: [dir, ino, dirs]
    env,         \* HABIT_STORAGE: [some, v]
    issued,      \* number of Uuid::new_v4() values drawn so far
    cmdsLeft,    \* invocations still to run
    faulty,      \* whether the environment injects an I/O fault, which ends the run
    last,        \* the last invocation: command, identifier, clock and Outcome
    model,       \* the successful operations so far applied to the initial store
    procs,       \* concurrent invocations: the position and locals of each
    hist         \* concurrent runs: the initial backing file, the saves completed

vars == <<fs, env, issued, cmdsLeft, faulty, last, model, procs, hist>>

\* Uuid::new_v4(): the n-th value drawn; values differ from one draw to the next
NewV4(n) == 9 + n

NameG      == <<"g">>
NameGUpper == <<"G">>
NameH      == <<"h">>
NameUuid   == UuidString(NewV4(2))
NameBlank  == <<" ">>
NameEmpty  == <<>>
TextD      == <<"d">>

\* the options of a command that has none
NoArgs == [name |-> NoneStr, description |-> NoneStr, frequency |-> NoneStr,
           active |-> NoneBool]

\* the arguments the commands are run with
AddArgs ==
    {[name |-> NameG, description |-> NoneStr, frequency |-> NoneNum],
     [name |-> NameGUpper, description |-> SomeStr(TextD), frequency |-> SomeNum(2)],
     [name |-> NameUuid, description |-> SomeStr(NullWord), frequency |-> SomeNum(0)],
     [name |-> NameBlank, description |-> NoneStr, frequency |-> NoneNum],
     [name |-> NameEmpty, description |-> SomeStr(TextD), frequency |-> NoneNum]}

Idents == {NameGUpper, NameUuid, UuidStringUpper(NewV4(1)), UuidString(NewV4(3))}

EditArgs ==
    LET E(n, d, fr, a) == [name |-> n, description |-> d, frequency |-> fr, active |-> a]
    IN  {E(SomeStr(NameH), SomeStr(NullWord), NoneStr, NoneBool),
         E(SomeStr(NameBlank), SomeStr(TextD), NoneStr, NoneBool),
         E(NoneStr, SomeStr(TextD), SomeStr(<<"3">>), NoneBool),
         E(NoneStr, SomeStr(<<"N","u","l","l">>), SomeStr(<<"N","U","L","L">>), NoneBool),
         E(SomeStr(NameGUpper), SomeStr(TextD), SomeStr(<<"x">>), SomeBool(FALSE)),
         E(NoneStr, NoneStr, NoneStr, SomeBool(FALSE)),
         E(NoneStr, NoneStr, NoneStr, SomeBool(TRUE))}

\* the faults, with the cut of write_all, that can be injected now
FaultChoices(stored) ==
    {<<"none", 0>>} \cup
    (IF faulty
     THEN {<<x, 0>> : x \in Faults \ {"none", "write"}}
          \cup {<<"write", c>> : c \in 1..(Len(stored) + 1)}
     ELSE {})

\* the step of one invocation: `out` its Outcome, `m` its in-memory part
\* applied to the model store
Record(cmd, ident, arg, now, out, m, fault) ==
    /\ fs' = out.fs
    /\ last' = [cmd |-> cmd, ident |-> ident, arg |-> arg, now |-> now,
                fault |-> fault, res |-> out.res, mem |-> out.mem,
                saved |-> out.saved]
    /\ model' = IF out.res = Ok /\ model.ok THEN [model EXCEPT !.habits = m.habits]
                ELSE model
    /\ cmdsLeft' = IF fault = "none" THEN cmdsLeft - 1 ELSE 0
    /\ UNCHANGED <<env, faulty, procs, hist>>

\* the backing file as load would parse it
StoredIn(f, e) == FromReader(Content(f, StoragePath(e)).v).habits
Stored == StoredIn(fs, env)

Add ==
    /\ cmdsLeft > 0
    /\ \E stored \in {Stored} :
       /\ Len(stored) < MaxHabits
       /\ \E a \in AddArgs, now \in CreateTimes, fc \in FaultChoices(stored) :
          \E out \in {RunAdd(fs, env, a.name, a.description, a.frequency,
                            NewV4(issued + 1), now, fc[1], fc[2])} :
              /\ Record("add", a.name, a, now, out,
                        AddMut(model.habits, a.name, a.description, a.frequency,
                               NewV4(issued + 1), now),
                        fc[1])
              /\ issued' = IF Len(out.mem) > 0 THEN issued + 1 ELSE issued

List ==
    /\ cmdsLeft > 0
    /\ \E active \in BOOLEAN, fault \in {"none"} \cup LoadFaults :
          /\ fault = "none" \/ faulty
          /\ \E out \in {RunList(fs, env, active, fault)} :
                Record("list", <<>>, [NoArgs EXCEPT !.active = SomeBool(active)], 0, out,
                       Mutated(Ok, model.habits), fault)
          /\ UNCHANGED issued

Complete ==
    /\ cmdsLeft > 0
    /\ \E stored \in {Stored} :
       \E ident \in Idents, now \in Times, fc \in FaultChoices(stored) :
          /\ \E out \in {RunComplete(fs, env, ident, now, fc[1], fc[2])} :
                Record("complete", ident, NoArgs, now, out,
                       CompleteMut(model.habits, ident, now), fc[1])
          /\ UNCHANGED issued

Remove ==
    /\ cmdsLeft > 0
    /\ \E stored \in {Stored} :
       \E ident \in Idents, fc \in FaultChoices(stored) :
          /\ \E out \in {RunRemove(fs, env, ident, fc[1], fc[2])} :
                Record("remove", ident, NoArgs, 0, out, RemoveMut(model.habits, ident), fc[1])
          /\ UNCHANGED issued

Edit ==
    /\ cmdsLeft > 0
    /\ \E stored \in {Stored} :
       \E ident \in Idents, a \in EditArgs, fc \in FaultChoices(stored) :
          /\ \E out \in {RunEdit(fs, env, ident, a.name, a.description, a.frequency,
                            a.active, fc[1], fc[2])} :
                Record("edit", ident, a, 0, out,
                       EditMut(model.habits, ident, a.name, a.description, a.frequency,
                               a.active),
                       fc[1])
          /\ UNCHANGED issued

NoInvocation ==
    [cmd |-> "none", ident |-> <<>>, arg |-> NoArgs, now |-> 0, fault |-> "none",
     res |-> Ok, mem |-> <<>>, saved |-> FALSE]

\* A store left by earlier runs: three habits added, the second completed on
\* day 2 and then late on day 0, the third deactivated.
SeedHabits ==
    <<HabitNew(NewV4(1), NameUuid, NoneStr, NoneNum, 0),
      MarkComplete(
          MarkComplete(HabitNew(NewV4(2), NameG, SomeStr(TextD), SomeNum(2), 1),
                       2 * TicksPerDay).habit,
          1).habit,
      [HabitNew(NewV4(3), NameGUpper, NoneStr, SomeNum(0), TicksPerDay)
          EXCEPT !.is_active = FALSE]>>

\* a habit object as an earlier version of the tool wrote it, without the
\* is_active field, and one that leaves out the optional fields it has not
LegacyObject(h) == [SerializeHabit(h) EXCEPT !.is_active = JMissing]
SparseObject(h) ==
    [SerializeHabit(h) EXCEPT
        !.description = IF h.description.some THEN @ ELSE JMissing,
        !.target_frequency = IF h.target_frequency.some THEN @ ELSE JMissing]

\* the backing files an invocation may find: a store of one to three habits,
\* a document cut short by another program, a document of legacy objects and
\* one of objects without their absent optional fields
SeedFiles ==
    {ToVecPretty(SubSeq(SeedHabits, 1, k)) : k \in 1..Len(SeedHabits)}
    \cup {<<TokOpen, TokObj(SerializeHabit(SeedHabits[1]))>>,
          <<TokOpen, TokObj(LegacyObject(SeedHabits[2])), TokClose>>,
          <<TokOpen, TokObj(SparseObject(SeedHabits[1])),
                     TokObj(SparseObject(SeedHabits[2])), TokClose>>}

FsWithFile(path, bytes) ==
    LET f == NewFs({"", path.parent})
    IN  [f EXCEPT !.dir[path] = 1, !.ino[1] = bytes]

\* a fresh working directory and a fault-free environment
InitFresh ==
    /\ env = [some |-> FALSE, v |-> DefaultPath]
    /\ fs = NewFs({""})
    /\ issued = 0
    /\ cmdsLeft = MaxCmds
    /\ faulty = FALSE
    /\ model = [ok |-> TRUE, habits |-> <<>>]
    /\ last = NoInvocation

\* a directory that holds a backing file, and an environment that may fail
InitSeeded ==
    /\ env = [some |-> FALSE, v |-> DefaultPath]
    /\ \E bytes \in SeedFiles :
          /\ fs = FsWithFile(StoragePath(env), bytes)
          /\ model = FromReader(bytes)
    /\ issued = Len(SeedHabits)
    /\ cmdsLeft = MaxSeededCmds
    /\ faulty = TRUE
    /\ last = NoInvocation

Init ==
    /\ InitFresh \/ InitSeeded
    /\ procs = <<>>
    /\ hist = <<>>

Next == Add \/ List \/ Complete \/ Remove \/ Edit

Spec == Init /\ [][Next]_vars

(* ------------------ concurrent invocations, step by step --------------- *)
\* Two invocations run against one backing file, each a process of its own.
\* Every system call of load and save is one step; write_all and the reader
\* move one token at a time.  A process can be killed at any step, and a step
\* of save can fail.
Procs == {1, 2}

Running == {"exists", "open", "read", "mutate",
            "mkdir", "create", "write", "flush", "rename"}
Saving  == {"mkdir", "create", "write", "flush", "rename"}

\* the inodes that processes other than p hold open, and those of all
OpenBy(ps) == {ps[q].fd : q \in {r \in Procs : ps[r].fd # 0}}

Goto(p, pc) == [procs EXCEPT ![p].pc = pc]

\* load: if !path.exists() { return Ok(empty) }
LoadExists(p) ==
    /\ procs[p].pc = "exists"
    /\ procs' = IF Exists(fs, StoragePath(env)) THEN Goto(p, "open")
                ELSE [procs EXCEPT ![p].pc = "mutate", ![p].mem = <<>>]
    /\ UNCHANGED <<fs, hist>>

\* load: File::open(path)?
LoadOpen(p) ==
    /\ procs[p].pc = "open"
    /\ procs' = IF Exists(fs, StoragePath(env))
                THEN [procs EXCEPT ![p].pc = "read", ![p].fd = fs.dir[StoragePath(env)],
                                   ![p].buf = <<>>]
                ELSE [procs EXCEPT ![p].pc = "failed", ![p].res = IoError]
    /\ UNCHANGED <<fs, hist>>

\* load: serde_json::from_reader(reader)?, one token read per step
LoadRead(p) ==
    /\ procs[p].pc = "read"
    /\ LET me   == procs[p]
           file == fs.ino[me.fd]
           got  == FromReader(me.buf)
       IN  IF Len(me.buf) < Len(file)
           THEN /\ procs' = [procs EXCEPT ![p].buf = Append(@, file[Len(me.buf) + 1])]
                /\ fs' = fs
           ELSE /\ procs' = [procs EXCEPT
                              ![p].pc = IF got.ok THEN "mutate" ELSE "failed",
                              ![p].res = IF got.ok THEN Ok ELSE SerdeError,
                              ![p].mem = got.habits,
                              ![p].fd = 0]
                /\ fs' = Reclaim(fs, OpenBy(procs'))
    /\ UNCHANGED hist

\* the handler between load and save
Mutate(p) ==
    /\ procs[p].pc = "mutate"
    /\ LET me == procs[p]
           m  == IF me.cmd = "add"
                 THEN AddMut(me.mem, me.name, NoneStr, NoneNum, NewV4(Len(SeedHabits) + p), p)
                 ELSE IF me.cmd = "remove" THEN RemoveMut(me.mem, me.name)
                 ELSE Mutated(Ok, me.mem)
       IN  procs' = [procs EXCEPT
                       ![p].pc = IF me.cmd = "list" THEN "done"
                                 ELSE IF m.res = Ok THEN "mkdir" ELSE "failed",
                       ![p].res = m.res,
                       ![p].mem = m.habits]
    /\ UNCHANGED <<fs, hist>>

\* save: fs::create_dir_all(parent)?
SaveMkdir(p) ==
    /\ procs[p].pc = "mkdir"
    /\ fs' = CreateDirAll(fs, StoragePath(env))
    /\ procs' = Goto(p, "create")
    /\ UNCHANGED hist

\* save: File::create(&tmp)?; to_vec_pretty(self)?
SaveCreate(p) ==
    /\ procs[p].pc = "create"
    /\ LET cr == FileCreate(fs, TmpPath(env), OpenBy(procs))
       IN  /\ fs' = cr.fs
           /\ procs' = IF cr.ok
                       THEN [procs EXCEPT ![p].pc = "write", ![p].fd = cr.fd,
                                          ![p].buf = ToVecPretty(procs[p].mem),
                                          ![p].wpos = 0]
                       ELSE [procs EXCEPT ![p].pc = "failed", ![p].res = IoError]
    /\ UNCHANGED hist

\* save: f.write_all(&data)?, one token written per step
SaveWrite(p) ==
    /\ procs[p].pc = "write"
    /\ LET me == procs[p]
       IN  IF me.wpos < Len(me.buf)
           THEN /\ fs' = WriteAt(fs, me.fd, me.wpos, <<me.buf[me.wpos + 1]>>)
                /\ procs' = [procs EXCEPT ![p].wpos = @ + 1]
           ELSE /\ fs' = fs
                /\ procs' = Goto(p, "flush")
    /\ UNCHANGED hist

\* save: f.flush()?
SaveFlush(p) ==
    /\ procs[p].pc = "flush"
    /\ procs' = Goto(p, "rename")
    /\ UNCHANGED <<fs, hist>>

\* save: fs::rename(tmp, path)?; Ok(()), the file is closed as save returns
SaveRename(p) ==
    /\ procs[p].pc = "rename"
    /\ LET closed == [procs EXCEPT ![p].fd = 0]
           rn     == Rename(fs, TmpPath(env), StoragePath(env), OpenBy(closed))
       IN  /\ fs' = Reclaim(rn.fs, OpenBy(closed))
           /\ procs' = [closed EXCEPT ![p].pc = IF rn.ok THEN "done" ELSE "failed",
                                      ![p].res = IF rn.ok THEN Ok ELSE IoError]
           /\ hist' = IF rn.ok THEN [hist EXCEPT !.saved = Append(@, p)] ELSE hist

\* the process is killed where it stands
Crash(p) ==
    /\ procs[p].pc \in Running
    /\ LET closed == [procs EXCEPT ![p].fd = 0, ![p].pc = "crashed"]
       IN  /\ procs' = closed
           /\ fs' = Reclaim(fs, OpenBy(closed))
    /\ hist' = [hist EXCEPT !.injected = TRUE]

\* the system call the process is about to make in save fails
IoFail(p) ==
    /\ procs[p].pc \in Saving
    /\ LET closed == [procs EXCEPT ![p].fd = 0, ![p].pc = "failed", ![p].res = IoError]
       IN  /\ procs' = closed
           /\ fs' = Reclaim(fs, OpenBy(closed))
    /\ hist' = [hist EXCEPT !.injected = TRUE]

\* the commands of the two invocations: the first adds a habit, the second
\* lists, adds or removes
Invocation(cmd, name) ==
    [cmd |-> cmd, name |-> name, pc |-> "exists", mem |-> <<>>, buf |-> <<>>,
     fd |-> 0, wpos |-> 0, res |-> Ok]

ConcFiles == {<<>>} \cup {ToVecPretty(SubSeq(SeedHabits, 1, k)) : k \in 1..2}

InitConc ==
    /\ env \in EnvValues
    /\ \E bytes \in ConcFiles :
          /\ fs = IF bytes = <<>> THEN NewFs({""})
                  ELSE FsWithFile(StoragePath(env), bytes)
          /\ hist = [file0 |-> Content(fs, StoragePath(env)), saved |-> <<>>,
                     injected |-> FALSE]
    /\ \E second \in {Invocation("list", <<>>), Invocation("add", NameGUpper),
                      Invocation("remove", UuidString(NewV4(1)))} :
          procs = <<Invocation("add", NameG), second>>
    /\ issued = 0
    /\ cmdsLeft = 0
    /\ faulty = FALSE
    /\ model = [ok |-> TRUE, habits |-> <<>>]
    /\ last = NoInvocation

\* the variables of sequential runs, which concurrent runs leave alone
seqVars == <<env, issued, cmdsLeft, faulty, last, model>>

\* one step of one of the two invocations
ConcLoadExists ==
    /\ \E p \in Procs : LoadExists(p)
    /\ UNCHANGED seqVars
ConcLoadOpen ==
    /\ \E p \in Procs : LoadOpen(p)
    /\ UNCHANGED seqVars
ConcLoadRead ==
    /\ \E p \in Procs : LoadRead(p)
    /\ UNCHANGED seqVars
ConcMutate ==
    /\ \E p \in Procs : Mutate(p)
    /\ UNCHANGED seqVars
ConcSaveMkdir ==
    /\ \E p \in Procs : SaveMkdir(p)
    /\ UNCHANGED seqVars
ConcSaveCreate ==
    /\ \E p \in Procs : SaveCreate(p)
    /\ UNCHANGED seqVars
ConcSaveWrite ==
    /\ \E p \in Procs : SaveWrite(p)
    /\ UNCHANGED seqVars
ConcSaveFlush ==
    /\ \E p \in Procs : SaveFlush(p)
    /\ UNCHANGED seqVars
ConcSaveRename ==
    /\ \E p \in Procs : SaveRename(p)
    /\ UNCHANGED seqVars
ConcCrash ==
    /\ \E p \in Procs : Crash(p)
    /\ UNCHANGED seqVars
ConcIoFail ==
    /\ \E p \in Procs : IoFail(p)
    /\ UNCHANGED seqVars

NextConc ==
    \/ ConcLoadExists \/ ConcLoadOpen \/ ConcLoadRead \/ ConcMutate
    \/ ConcSaveMkdir \/ ConcSaveCreate \/ ConcSaveWrite \/ ConcSaveFlush
    \/ ConcSaveRename \/ ConcCrash \/ ConcIoFail

SpecConc == InitConc /\ [][NextConc]_vars

(* ======================= properties of concurrent runs ================= *)
\* the backing file as a load would find it
FileIn(f, e) == Content(f, StoragePath(e))
BackingFile == FileIn(fs, env)

\* what load returns from a backing file with the given content, or without one
Committed(file) ==
    IF file.some THEN FromReader(file.v).habits ELSE <<>>

\* the second invocation only reads: the first is the only one that saves
SingleWriter == procs[2].cmd = "list"
Renamed(p) == \E i \in 1..Len(hist.saved) : hist.saved[i] = p

\* C1: save is atomic under crashes and failures.  With one invocation saving,
\* wherever it stands, was killed or has failed, as long as its rename has not
\* completed the backing file is the file as it was before save began (or is
\* still absent) and load returns the store committed before; once the rename
\* has completed the backing file is the whole store that was saved.
C1_SaveAtomic ==
    SingleWriter =>
        IF Renamed(1)
        THEN BackingFile = [some |-> TRUE, v |-> ToVecPretty(procs[1].mem)]
        ELSE /\ BackingFile = hist.file0
             /\ LoadStore(fs, env, "none") =
                   [res |-> Ok, habits |-> Committed(hist.file0)]

\* the save was cut in the middle of write_all, with a store committed before:
\* part of the new document lies in the temporary file
C1_Witness ==
    /\ SingleWriter
    /\ hist.file0.some
    /\ procs[1].pc \in {"crashed", "failed"}
    /\ procs[1].wpos > 0
    /\ procs[1].wpos < Len(procs[1].buf)
    /\ Content(fs, TmpPath(env)) =
          [some |-> TRUE, v |-> SubSeq(procs[1].buf, 1, procs[1].wpos)]

\* C2: a load that runs while another invocation saves returns without a
\* parse error, and what it returns is either the whole store committed before
\* the save or, the rename having completed, the whole store that was saved.
C2_ReaderSeesWholeStore ==
    (SingleWriter /\ procs[2].pc \in {"done", "failed"}) =>
        /\ procs[2].res = Ok
        /\ \/ procs[2].mem = Committed(hist.file0)
           \/ Renamed(1) /\ procs[2].mem = procs[1].mem

\* the load began and ended while the save was under way: the reader has its
\* store and the writer, its document written, has yet to rename
C2_Witness ==
    /\ SingleWriter
    /\ hist.file0.some
    /\ ~hist.injected
    /\ procs[2].pc = "done"
    /\ procs[2].mem = Committed(hist.file0)
    /\ procs[1].pc = "rename"
    /\ Content(fs, TmpPath(env)) = [some |-> TRUE, v |-> procs[1].buf]

\* C3: last writer wins.  When both invocations have ended, none killed and no
\* failure injected, and at least one save has completed, the backing file is
\* exactly the store written by the invocation whose save completed last.
C3_LastWriterWins ==
    (/\ ~hist.injected
     /\ \A p \in Procs : procs[p].pc \in {"done", "failed"}
     /\ hist.saved # <<>>) =>
        BackingFile =
            [some |-> TRUE, v |-> ToVecPretty(procs[hist.saved[Len(hist.saved)]].mem)]

(* ======================= properties of sequential runs ================= *)
\* what load finds at the storage path: [some, v]
MutatingCmds == {"add", "complete", "remove", "edit"}
IoKinds == {"Io", "Serde"}

\* the rule of resolve, stated on one record: by id alone when the identifier
\* is a Uuid literal, by name without regard to case otherwise
Resolves(h, ident) ==
    LET u == ParseUuid(ident)
    IN  IF u.ok THEN h.id = u.id
        ELSE /\ Len(h.name) = Len(ident)
             /\ \A i \in 1..Len(ident) : ToAsciiLower(h.name[i]) = ToAsciiLower(ident[i])

SameDay(t1, t2) == t1 \div TicksPerDay = t2 \div TicksPerDay

\* C4: a command that ends in an error leaves the backing file as it was, and
\* the only error that follows a call of save is the Io error of that save; an
\* edit whose frequency does not parse persists none of its other fields.
C4_ErrorStep ==
    last'.res.kind # "Ok" =>
        /\ FileIn(fs', env') = BackingFile
        /\ last'.saved => last'.res.kind = "Io"
C4_NoPartialMutationPersisted == [][C4_ErrorStep]_vars

\* the edit failed on its frequency after it had assigned a new name in memory
C4_Witness ==
    /\ last.cmd = "edit"
    /\ last.res = InvalidName(FrequencyWord)
    /\ ~last.saved
    /\ \E k \in 1..Len(Stored) :
          /\ last.mem[k].name # Stored[k].name
          /\ last.mem[k].description # Stored[k].description

\* C5: the backing file holds the store obtained by applying the successful
\* operations, in order, to the store the initial file held (no file while
\* that store is the empty initial one), and a mutating command that returned
\* Ok has called save and left exactly the serialization of its in-memory
\* store, which is that store, in the file.
C5_FileFollowsOperations ==
    model.ok =>
        /\ IF BackingFile.some THEN FromReader(BackingFile.v) = model
           ELSE model.habits = <<>>
        /\ (last.res = Ok /\ last.cmd \in MutatingCmds) =>
              /\ last.saved
              /\ last.mem = model.habits
              /\ BackingFile = [some |-> TRUE, v |-> ToVecPretty(last.mem)]

\* three successful mutating commands in a row, the last a remove
C5_Witness ==
    /\ ~faulty
    /\ cmdsLeft = 0
    /\ issued = 2
    /\ last.cmd = "remove"
    /\ last.res = Ok
    /\ Len(model.habits) = 1
    /\ BackingFile.some

\* C6: a store that save has written is the store load returns, field for
\* field and in the same order.
C6_RoundTrip ==
    (last.res = Ok /\ last.saved) =>
        LoadStore(fs, env, "none") = [res |-> Ok, habits |-> last.mem]

\* the saved store has an absent and a present description and frequency, an
\* empty and a non-empty completion list, an active and an inactive habit
C6_Witness ==
    /\ last.res = Ok
    /\ last.saved
    /\ \E i, j \in 1..Len(last.mem) :
          /\ last.mem[i].description.some /\ ~last.mem[j].description.some
          /\ last.mem[i].target_frequency.some /\ ~last.mem[j].target_frequency.some
          /\ Len(last.mem[i].completions) > 1 /\ last.mem[j].completions = <<>>
          /\ last.mem[i].completions[1] % TicksPerDay # 0
    /\ \E i, j \in 1..Len(last.mem) : last.mem[i].is_active /\ ~last.mem[j].is_active

\* C7: a complete command on a habit with no completion on the day of the
\* clock succeeds and adds that one timestamp, after which mark_complete with
\* any timestamp of the same day returns false and changes nothing; on a habit
\* that has a completion on that day it fails with AlreadyCompleted(name)
\* without saving.  ("The first call" is read as the first call for that day.)
C7_CompleteStep ==
    (last'.cmd = "complete" /\ last'.res.kind \notin IoKinds) =>
        \A before \in {Stored} : \A after \in {StoredIn(fs', env')} :
        LET k   == CHOOSE i \in 0..Len(before) :
                      /\ i > 0 => Resolves(before[i], last'.ident)
                      /\ \A j \in 1..Len(before) :
                            Resolves(before[j], last'.ident) => i > 0 /\ i <= j
            now == last'.now
        IN  k > 0 =>
              IF \E i \in 1..Len(before[k].completions) :
                    SameDay(before[k].completions[i], now)
              THEN /\ last'.res = AlreadyCompleted(before[k].name)
                   /\ ~last'.saved
                   /\ FileIn(fs', env') = BackingFile
              ELSE /\ last'.res = Ok
                   /\ Len(after[k].completions) = Len(before[k].completions) + 1
                   /\ \E i \in 1..Len(after[k].completions) :
                         after[k].completions[i] = now
                   /\ \A i \in 1..Len(before[k].completions) :
                         \E j \in 1..Len(after[k].completions) :
                            after[k].completions[j] = before[k].completions[i]
                   /\ \A t \in 0..(3 * TicksPerDay - 1) :
                         SameDay(t, now) =>
                            MarkComplete(after[k], t) =
                               [ok |-> FALSE, habit |-> after[k]]
C7_IdempotentPerDate == [][C7_CompleteStep]_vars

\* the second complete came at another time of the day already recorded
C7_Witness ==
    /\ last.cmd = "complete"
    /\ last.res.kind = "AlreadyCompleted"
    /\ \E k \in 1..Len(Stored) :
          /\ Resolves(Stored[k], last.ident)
          /\ last.res.arg = Stored[k].name
          /\ \E i \in 1..Len(Stored[k].completions) :
                /\ SameDay(Stored[k].completions[i], last.now)
                /\ Stored[k].completions[i] # last.now

\* C8: in the backing file and in the store of every invocation, the
\* completions of every habit ascend and no two of them fall on one day.
SortedByDay(c) ==
    \A i, j \in 1..Len(c) : i < j => c[i] < c[j] /\ ~SameDay(c[i], c[j])
C8_CompletionsSortedUnique ==
    /\ \A stored \in {Stored} :
          \A k \in 1..Len(stored) : SortedByDay(stored[k].completions)
    /\ \A k \in 1..Len(last.mem) : SortedByDay(last.mem[k].completions)

\* a completion was recorded for a day earlier than one already recorded
C8_Witness ==
    /\ last.cmd = "complete"
    /\ last.res = Ok
    /\ \E k \in 1..Len(Stored) :
          LET c == Stored[k].completions
          IN  /\ Len(c) >= 2
              /\ c[Len(c)] # last.now
              /\ \E i \in 1..Len(c) : c[i] = last.now

\* the records of `habits` that the identifier resolves to, in their order
Resolved(habits, ident) == {i \in 1..Len(habits) : Resolves(habits[i], ident)}
Unresolved(habits, ident) == SelectSeq(habits, LAMBDA h : ~Resolves(h, ident))

\* C9: complete, edit and remove with an identifier that is a Uuid literal
\* touch only the record with that id, whatever the names are, and answer
\* NotFound when no record has that id; with any other identifier they go by
\* name without regard to case.
C9_ResolveStep ==
    (last'.cmd \in {"complete", "edit", "remove"} /\ last'.res.kind \notin IoKinds) =>
        \A before \in {Stored} : \A after \in {StoredIn(fs', env')} :
        LET ident == last'.ident
        IN  \A hit \in {Resolved(before, ident)} :
            /\ last'.res = NotFound(ident) <=> hit = {}
            /\ hit = {} => FileIn(fs', env') = BackingFile
            /\ (last'.res = Ok /\ last'.cmd # "remove") =>
                  /\ Len(after) = Len(before)
                  /\ \A i \in 1..Len(before) :
                        after[i] # before[i] => i \in hit
            /\ (last'.res = Ok /\ last'.cmd = "remove") =>
                  \A i \in 1..Len(before) :
                     i \notin hit => \E j \in 1..Len(after) : after[j] = before[i]
C9_ResolutionPrecedence == [][C9_ResolveStep]_vars

\* a complete by a Uuid literal reached the record with that id although an
\* earlier record has the literal as its name
C9_Witness ==
    /\ last.cmd = "complete"
    /\ last.res = Ok
    /\ ParseUuid(last.ident).ok
    /\ \E i, j \in 1..Len(Stored) :
          /\ i < j
          /\ EqIgnoreAsciiCase(Stored[i].name, last.ident)
          /\ Stored[j].id = ParseUuid(last.ident).id
          /\ \E c \in 1..Len(Stored[j].completions) : Stored[j].completions[c] = last.now
          /\ \A c \in 1..Len(Stored[i].completions) : Stored[i].completions[c] # last.now

\* C10: remove deletes every record the identifier resolves to and keeps the
\* others as they were and in their order; it answers NotFound, without
\* saving, exactly when nothing resolved; after a remove that succeeded the
\* identifier resolves to nothing.
C10_RemoveStep ==
    (last'.cmd = "remove" /\ last'.res.kind \notin IoKinds) =>
        \A before \in {Stored} : \A after \in {StoredIn(fs', env')} :
        LET ident == last'.ident
        IN  IF Resolved(before, ident) = {}
            THEN /\ last'.res = NotFound(ident)
                 /\ ~last'.saved
                 /\ FileIn(fs', env') = BackingFile
            ELSE /\ last'.res = Ok
                 /\ after = Unresolved(before, ident)
                 /\ FindByIdentMut(after, ident) = 0
C10_RemoveAllMatches == [][C10_RemoveStep]_vars

\* one remove by name deleted two records and kept the one before them
C10_Witness ==
    /\ last.cmd = "remove"
    /\ last.res = Ok
    /\ last.ident = NameGUpper
    /\ issued = Len(SeedHabits)
    /\ Stored = <<SeedHabits[1]>>

\* a string with nothing but white space in it, the empty string included
Blank(s) == \A i \in 1..Len(s) : s[i] = " " \/ s[i] = "\t"

\* C11: add with a name that is not blank appends one record and leaves the
\* records before it as they were; the new record has exactly the name given,
\* the description and frequency given, no completions, is_active = true and
\* an id no earlier record has, and that id resolves to it.  Add with a blank
\* name fails with InvalidName(name) and neither saves nor changes the file.
C11_AddStep ==
    (last'.cmd = "add" /\ last'.res.kind \notin IoKinds) =>
        \A before \in {Stored} : \A after \in {StoredIn(fs', env')} :
        LET name == last'.arg.name
            n    == Len(before)
        IN  IF Blank(name)
            THEN /\ last'.res = InvalidName(name)
                 /\ ~last'.saved
                 /\ FileIn(fs', env') = BackingFile
            ELSE /\ last'.res = Ok
                 /\ Len(after) = n + 1
                 /\ SubSeq(after, 1, n) = before
                 /\ after[n + 1].name = name
                 /\ after[n + 1].description = last'.arg.description
                 /\ after[n + 1].target_frequency = last'.arg.frequency
                 /\ after[n + 1].completions = <<>>
                 /\ after[n + 1].is_active
                 /\ after[n + 1].created_at = last'.now
                 /\ \A i \in 1..n : before[i].id # after[n + 1].id
                 /\ FindByIdentMut(after, UuidString(after[n + 1].id)) = n + 1
C11_AddCreates == [][C11_AddStep]_vars

\* a habit was added under a name another record already has, after a record
\* whose name is the Uuid literal of the new id
C11_Witness ==
    /\ last.cmd = "add"
    /\ last.res = Ok
    /\ \E i, j \in 1..(Len(Stored) - 1) :
          /\ Stored[i].name = Stored[Len(Stored)].name
          /\ Stored[j].name = UuidString(Stored[Len(Stored)].id)

\* no two records of the store have the same id
DistinctIds(habits) ==
    \A i, j \in 1..Len(habits) : i # j => habits[i].id # habits[j].id

\* C12: before and after every command the ids of the stored records are
\* pairwise distinct; a record found after a command under an id the store
\* had before has the created_at it had; and an edit or a complete that
\* succeeds leaves every position of the store with its id and created_at.
C12_IdentityStep ==
    \A before \in {Stored} : \A after \in {StoredIn(fs', env')} :
        /\ DistinctIds(before)
        /\ DistinctIds(after)
        /\ \A i \in 1..Len(before) : \A j \in 1..Len(after) :
              after[j].id = before[i].id => after[j].created_at = before[i].created_at
        /\ (last'.cmd \in {"edit", "complete"} /\ last'.res = Ok) =>
              /\ Len(after) = Len(before)
              /\ \A i \in 1..Len(before) :
                    /\ after[i].id = before[i].id
                    /\ after[i].created_at = before[i].created_at
C12_IdAndCreationFixed == [][C12_IdentityStep]_vars

\* a record that has completions was renamed: it has the id and the
\* created_at it was given when it was added
C12_Witness ==
    /\ last.cmd = "edit"
    /\ last.res = Ok
    /\ last.arg.name = SomeStr(NameH)
    /\ \E k \in 1..Len(Stored) :
          /\ Stored[k].name = NameH
          /\ Stored[k].id = SeedHabits[2].id
          /\ Stored[k].created_at = SeedHabits[2].created_at
          /\ Stored[k].completions = SeedHabits[2].completions
          /\ Stored[k].created_at # 0

\* every record of the store has a name with something but white space in it
NamesNotBlank(habits) == \A i \in 1..Len(habits) : ~Blank(habits[i].name)

\* C13: before and after every command no stored record has a blank name;
\* add, and edit once it has resolved its identifier, answer a blank name
\* with InvalidName(name) and leave the file as it was; an edit without a
\* name, a complete, a remove and a list leave every record that stays with
\* the name it had.
C13_NameStep ==
    \A before \in {Stored} : \A after \in {StoredIn(fs', env')} :
        /\ NamesNotBlank(before)
        /\ NamesNotBlank(after)
        /\ (last'.cmd = "add" /\ Blank(last'.arg.name)) =>
              /\ last'.res = InvalidName(last'.arg.name)
              /\ FileIn(fs', env') = BackingFile
        /\ (/\ last'.cmd = "edit"
            /\ last'.arg.name.some
            /\ Blank(last'.arg.name.v)
            /\ last'.res.kind \notin IoKinds
            /\ Resolved(before, last'.ident) # {}) =>
              /\ last'.res = InvalidName(last'.arg.name.v)
              /\ FileIn(fs', env') = BackingFile
        /\ (\/ last'.cmd \in {"complete", "remove", "list"}
            \/ last'.cmd = "edit" /\ ~last'.arg.name.some) =>
              \A j \in 1..Len(after) : \E i \in 1..Len(before) :
                 before[i].id = after[j].id /\ before[i].name = after[j].name
C13_NameNeverBlank == [][C13_NameStep]_vars

\* an edit that resolved its identifier was refused for its blank name
C13_Witness ==
    /\ last.cmd = "edit"
    /\ last.res = InvalidName(NameBlank)
    /\ Resolved(Stored, last.ident) # {}
    /\ ~last.saved

\* the command of the step called load: every command but an add that was
\* refused for its name
CalledLoad(l) == l.cmd # "none" /\ ~(l.cmd = "add" /\ Blank(l.arg.name))

\* C14: with no backing file, load gives the empty store without an error and
\* creates no file (list answers Ok with nothing in its store; complete, edit
\* and remove answer NotFound); with a backing file, a failure to open it or
\* to read it makes the command fail with Io, a content that does not parse
\* makes it fail with the parse error, and in each failing case the backing
\* file is left as it was.
C14_LoadStep ==
    CalledLoad(last') =>
        \A had \in {BackingFile} : \A has \in {FileIn(fs', env')} :
            /\ (~had.some /\ last'.cmd = "list") =>
                  last'.res = Ok /\ last'.mem = <<>> /\ ~has.some
            /\ (~had.some /\ last'.cmd \in {"complete", "edit", "remove"}) =>
                  last'.res = NotFound(last'.ident) /\ ~has.some
            /\ (had.some /\ last'.fault \in LoadFaults) =>
                  last'.res = IoError /\ has = had
            /\ (had.some /\ last'.fault \notin LoadFaults /\ ~FromReader(had.v).ok) =>
                  last'.res = SerdeError /\ has = had
C14_LoadOutcomes == [][C14_LoadStep]_vars

\* the object with is_active = true written into it when it has no such field
WithDefaultActive(o) ==
    [o EXCEPT !.is_active = IF @.t = "missing" THEN JBool(TRUE) ELSE @]
DefaultedDocument(bytes) ==
    [i \in 1..Len(bytes) |->
        IF bytes[i].k = "obj" THEN TokObj(WithDefaultActive(bytes[i].o)) ELSE bytes[i]]

\* C15: a backing file that parses once is_active = true is written into the
\* objects that lack the field is never reported as corrupt: a list that meets
\* no I/O fault answers Ok with the store of that completed document, in which
\* a record without is_active is active and a description or target_frequency
\* that is omitted or null is absent.
C15_ListStep ==
    (last'.cmd = "list" /\ last'.fault = "none") =>
        \A file \in {BackingFile} :
            (file.some /\ FromReader(DefaultedDocument(file.v)).ok) =>
                /\ last'.res = Ok
                /\ last'.mem = FromReader(DefaultedDocument(file.v)).habits
                /\ \A i \in 1..Len(last'.mem) :
                      LET o == file.v[i + 1].o
                      IN  /\ o.is_active.t = "missing" => last'.mem[i].is_active
                          /\ last'.mem[i].description.some = (o.description.t = "str")
                          /\ last'.mem[i].target_frequency.some =
                                (o.target_frequency.t = "num")
C15_BothShapesLoad == [][C15_ListStep]_vars

\* the first record the identifier resolves to, 0 when there is none
FirstResolved(habits, ident) ==
    IF Resolved(habits, ident) = {} THEN 0
    ELSE CHOOSE i \in Resolved(habits, ident) :
            \A j \in Resolved(habits, ident) : i <= j

\* C16: an edit that sets is_active and succeeds keeps every record: the one
\* it resolved has the flag given, its id, created_at and completions, and
\* every field the edit gave no option for, and the other records are as they
\* were.  With the flag false the record is left out of list --active true and
\* shown by list --active false; with the flag true it is listed again.  When
\* the edit does not rename, every identifier resolves to the records it
\* resolved to before, and the id of the record resolves to it.  A complete,
\* edit or remove whose identifier resolves to an inactive record is not
\* answered NotFound.  A list shows the records of the file that its flag
\* admits, and neither saves nor changes the file.
C16_ActiveStep ==
    \A before \in {Stored} : \A after \in {StoredIn(fs', env')} :
    LET k == FirstResolved(before, last'.ident)
        a == last'.arg
    IN  /\ (last'.cmd = "edit" /\ last'.res = Ok /\ a.active.some) =>
              /\ Len(after) = Len(before)
              /\ \A i \in 1..Len(before) : i # k => after[i] = before[i]
              /\ after[k].is_active = a.active.v
              /\ after[k].id = before[k].id
              /\ after[k].created_at = before[k].created_at
              /\ after[k].completions = before[k].completions
              /\ ~a.name.some => after[k].name = before[k].name
              /\ ~a.description.some => after[k].description = before[k].description
              /\ ~a.frequency.some =>
                    after[k].target_frequency = before[k].target_frequency
              /\ k \in Listed(after, TRUE) <=> a.active.v
              /\ k \in Listed(after, FALSE)
              /\ k \in Resolved(after, UuidString(after[k].id))
              /\ ~a.name.some =>
                    \A x \in Idents \cup {after[k].name} :
                       Resolved(after, x) = Resolved(before, x)
        /\ (/\ last'.cmd \in {"complete", "edit", "remove"}
            /\ last'.res.kind \notin IoKinds
            /\ k > 0
            /\ ~before[k].is_active) =>
              last'.res.kind # "NotFound"
        /\ (last'.cmd = "list" /\ last'.res = Ok) =>
              /\ last'.mem = before
              /\ Listed(last'.mem, a.active.v) =
                    {i \in 1..Len(before) : before[i].is_active \/ ~a.active.v}
              /\ ~last'.saved
              /\ fs' = fs
C16_DeactivationHides == [][C16_ActiveStep]_vars

\* an active habit with completions was deactivated by an edit that gave no
\* other option: the record is in the file with nothing else changed
C16_Witness ==
    /\ last.cmd = "edit"
    /\ last.res = Ok
    /\ last.arg = [NoArgs EXCEPT !.active = SomeBool(FALSE)]
    /\ Len(Stored) = 3
    /\ Stored[2] = [SeedHabits[2] EXCEPT !.is_active = FALSE]
    /\ SeedHabits[2].is_active
    /\ Listed(Stored, TRUE) = {1}
    /\ Listed(Stored, FALSE) = {1, 2, 3}

\* the ids drawn so far, and the ids of the records of a store
IssuedIds == {NewV4(n) : n \in 1..issued}
IdsOf(habits) == {habits[i].id : i \in 1..Len(habits)}

\* C17: the life of a habit.  A record enters the store only by an add, active
\* and under an id that was never drawn before; it leaves only by a remove;
\* every stored id is one that was drawn, so an id that left cannot come
\* back.  The is_active of a record changes only by an edit that gives the
\* active option, to the value given.  A complete that succeeds changes the
\* record it resolved in its completions alone, which gain the one timestamp
\* of the clock, and changes no other record.
C17_LifeStep ==
    \A before \in {Stored} : \A after \in {StoredIn(fs', env')} :
        /\ IdsOf(before) \subseteq IssuedIds
        /\ \A j \in 1..Len(after) :
              after[j].id \notin IdsOf(before) =>
                 /\ last'.cmd = "add"
                 /\ after[j].is_active
                 /\ after[j].id \notin IssuedIds
                 /\ issued' = issued + 1
                 /\ after[j].id = NewV4(issued')
        /\ IdsOf(after) # IdsOf(before) \cup IdsOf(after) => last'.cmd = "remove"
        /\ \A i \in 1..Len(before) : \A j \in 1..Len(after) :
              (after[j].id = before[i].id /\ after[j].is_active # before[i].is_active) =>
                 /\ last'.cmd = "edit"
                 /\ last'.arg.active = SomeBool(after[j].is_active)
        /\ (last'.cmd = "complete" /\ last'.res = Ok) =>
              LET k == FirstResolved(before, last'.ident)
              IN  /\ Len(after) = Len(before)
                  /\ \A i \in 1..Len(before) : i # k => after[i] = before[i]
                  /\ [after[k] EXCEPT !.completions = before[k].completions] = before[k]
                  /\ Len(after[k].completions) = Len(before[k].completions) + 1
                  /\ Range(after[k].completions) =
                        Range(before[k].completions) \cup {last'.now}
C17_Lifecycle == [][C17_LifeStep]_vars

\* an inactive habit was completed: it is still inactive, and its completions
\* are all that changed
C17_Witness ==
    /\ last.cmd = "complete"
    /\ last.res = Ok
    /\ Len(Stored) = 3
    /\ ~SeedHabits[3].is_active
    /\ Stored[3] = [SeedHabits[3] EXCEPT !.completions = <<last.now>>]
    /\ SubSeq(Stored, 1, 2) = SubSeq(SeedHabits, 1, 2)

\* C18: when an identifier that is no Uuid literal resolves, as a name, to
\* several records, a complete or an edit that succeeds changes at most the
\* first of them in the order of the collection: every other record, the
\* later duplicates among them, is as it was and where it was; a complete
\* adds its timestamp to that first record, an edit that renames gives it the
\* new name, and a complete answered AlreadyCompleted names that first record.
C18_DuplicateStep ==
    (/\ last'.cmd \in {"complete", "edit"}
     /\ last'.res.kind \notin IoKinds
     /\ ~ParseUuid(last'.ident).ok) =>
        \A before \in {Stored} : \A after \in {StoredIn(fs', env')} :
        LET hit == Resolved(before, last'.ident)
            k   == FirstResolved(before, last'.ident)
        IN  Cardinality(hit) >= 2 =>
              /\ last'.res = Ok =>
                    /\ Len(after) = Len(before)
                    /\ \A i \in 1..Len(before) : i # k => after[i] = before[i]
                    /\ after[k].id = before[k].id
                    /\ last'.cmd = "complete" =>
                          last'.now \in Range(after[k].completions)
                    /\ (last'.cmd = "edit" /\ last'.arg.name.some) =>
                          after[k].name = last'.arg.name.v
              /\ last'.res.kind = "AlreadyCompleted" =>
                    /\ last'.res.arg = before[k].name
                    /\ \E c \in 1..Len(before[k].completions) :
                          SameDay(before[k].completions[c], last'.now)
              /\ last'.res.kind # "NotFound"
C18_FirstMatchWins == [][C18_DuplicateStep]_vars

\* a rename by a name two records share reached the first of them only
C18_Witness ==
    /\ last.cmd = "edit"
    /\ last.res = Ok
    /\ last.ident = NameGUpper
    /\ Len(Stored) = 3
    /\ EqIgnoreAsciiCase(SeedHabits[2].name, SeedHabits[3].name)
    /\ Stored[2].name = NameH
    /\ Stored[3] = SeedHabits[3]
    /\ Stored[1] = SeedHabits[1]

\* the string in lower case
Lowered(s) == [i \in 1..Len(s) |-> ToAsciiLower(s[i])]

\* C19 as stated: the record an add or an edit with a frequency has written
\* has a target_frequency that is absent or at least 1, and a complete on a
\* day without a completion succeeds whatever the target is.
C19_PositiveStep ==
    \A before \in {Stored} : \A after \in {StoredIn(fs', env')} :
    LET k == FirstResolved(before, last'.ident)
    IN  /\ (last'.cmd = "add" /\ last'.res = Ok) =>
              (after[Len(after)].target_frequency.some =>
                  after[Len(after)].target_frequency.v >= 1)
        /\ (last'.cmd = "edit" /\ last'.res = Ok /\ last'.arg.frequency.some) =>
              (after[k].target_frequency.some => after[k].target_frequency.v >= 1)
        /\ (/\ last'.cmd = "complete"
            /\ last'.res.kind \notin IoKinds
            /\ k > 0
            /\ \A c \in 1..Len(before[k].completions) :
                  ~SameDay(before[k].completions[c], last'.now)) =>
              last'.res = Ok
C19_FrequencyPositive == [][C19_PositiveStep]_vars

\* C19 as amended: a target_frequency is absent or a count of zero or more.
\* The record an add has written has the frequency the add was given, zero
\* included, or none; an edit with a frequency writes none for "null" in any
\* case of letters and the number for a decimal string; every other command
\* leaves the target_frequency of the records it keeps.  A complete on a day
\* without a completion succeeds whatever the target is.
C19_CountStep ==
    \A before \in {Stored} : \A after \in {StoredIn(fs', env')} :
    LET k == FirstResolved(before, last'.ident)
        a == last'.arg
    IN  /\ \A i \in 1..Len(after) :
              after[i].target_frequency.some => after[i].target_frequency.v \in Nat
        /\ (last'.cmd = "add" /\ last'.res = Ok) =>
              after[Len(after)].target_frequency = a.frequency
        /\ (last'.cmd = "edit" /\ last'.res = Ok /\ a.frequency.some) =>
              /\ Lowered(a.frequency.v) = NullWord => after[k].target_frequency = NoneNum
              /\ a.frequency.v = <<"3">> => after[k].target_frequency = SomeNum(3)
        /\ (\/ last'.cmd \in {"complete", "remove", "list"}
            \/ last'.cmd = "edit" /\ ~a.frequency.some) =>
              \A j \in 1..Len(after) : \E i \in 1..Len(before) :
                 /\ before[i].id = after[j].id
                 /\ before[i].target_frequency = after[j].target_frequency
        /\ (/\ last'.cmd = "complete"
            /\ last'.res.kind \notin IoKinds
            /\ k > 0
            /\ \A c \in 1..Len(before[k].completions) :
                  ~SameDay(before[k].completions[c], last'.now)) =>
              last'.res = Ok
C19_FrequencyIsCount == [][C19_CountStep]_vars

\* a habit that had reached its target was completed once more, in a store
\* that holds a habit with the target zero
C19_Witness ==
    /\ last.cmd = "complete"
    /\ last.res = Ok
    /\ \E k, j \in 1..Len(Stored) :
          /\ Stored[k].target_frequency.some
          /\ Stored[k].target_frequency.v > 0
          /\ Len(Stored[k].completions) > Stored[k].target_frequency.v
          /\ last.now \in Range(Stored[k].completions)
          /\ Stored[j].target_frequency = SomeNum(0)

\* C20 as stated: an edit that succeeds with the description "null" leaves
\* the record without a description, with any other description it stores
\* that text as given, and with no description it leaves the one stored.
C20_LiteralStep ==
    (last'.cmd = "edit" /\ last'.res = Ok) =>
        \A before \in {Stored} : \A after \in {StoredIn(fs', env')} :
        LET k == FirstResolved(before, last'.ident)
            d == last'.arg.description
        IN  after[k].description =
                IF ~d.some THEN before[k].description
                ELSE IF d.v = NullWord THEN NoneStr
                ELSE SomeStr(d.v)
C20_NullLiteralClears == [][C20_LiteralStep]_vars

\* C20 as amended: an edit that succeeds with a description that is "null" in
\* any case of its letters ("null", "Null", "NULL") leaves the record without
\* a description, with any other description it stores that text as given,
\* and with no description it leaves the one stored.
C20_SentinelStep ==
    (last'.cmd = "edit" /\ last'.res = Ok) =>
        \A before \in {Stored} : \A after \in {StoredIn(fs', env')} :
        LET k == FirstResolved(before, last'.ident)
            d == last'.arg.description
        IN  after[k].description =
                IF ~d.some THEN before[k].description
                ELSE IF Lowered(d.v) = NullWord THEN NoneStr
                ELSE SomeStr(d.v)
C20_NullSentinelClears == [][C20_SentinelStep]_vars

\* a habit that had a description was edited with the description "Null":
\* the stored record has none
C20_Witness ==
    /\ last.cmd = "edit"
    /\ last.res = Ok
    /\ last.arg.description = SomeStr(<<"N","u","l","l">>)
    /\ Len(Stored) >= 2
    /\ SeedHabits[2].description.some
    /\ Stored[2].id = SeedHabits[2].id
    /\ Stored[2].description = NoneStr

====
